---- MODULE Spec2Model ----
(***************************************************************************)
(* Model of dev.sh, the development orchestrator of Open WebUI.            *)
(*                                                                         *)
(* The script is one straight-line program: the whole "start" section      *)
(* (lines 8-158) runs on every invocation, and only afterwards the first   *)
(* positional argument is compared with "stop" (line 161) and "restart"    *)
(* (line 200).  restart calls the script itself twice, as child processes. *)
(* Every step of the script is one action; the position in the script is   *)
(* the pc of the innermost running invocation (the top of `stack`).        *)
(*                                                                         *)
(* The world around the script: screen sessions, processes that hold a     *)
(* socket on the backend or frontend port (what lsof -ti:PORT lists), and  *)
(* the servers inside the sessions, which reach their port some time       *)
(* after the session was launched.  Commands whose failure the script      *)
(* hides with || true may fail: kill -9 on a process of another user, and  *)
(* screen -X quit on any session.  Processes of other origin do not leave  *)
(* on their own.                                                           *)
(***************************************************************************)
EXTENDS Integers, Sequences, FiniteSets, TLC

\* ------------------------------------------------------------------ bounds
MaxSessions == 2        \* most sessions of one name the model lets coexist
MaxIntrusions == 1      \* most processes of other origin that open a socket
                        \* while one top-level invocation runs

\* ------------------------------------------------------- program constants
BACKEND_PORT  == 8080
FRONTEND_PORT == 5173
Ports == {BACKEND_PORT, FRONTEND_PORT}

SessionNames == {"webui-backend", "webui-frontend"}
PortSession == [p \in Ports |->
                  IF p = BACKEND_PORT THEN "webui-backend" ELSE "webui-frontend"]

\* grep -E alternatives of the script
BackendAllow  == {"node", "python", "uvicorn"}
FrontendAllow == {"node", "npm", "vite"}
BrowserPattern == {"firefox", "chrome", "safari", "browser"}
AllowList == [p \in Ports |->
                IF p = BACKEND_PORT THEN BackendAllow ELSE FrontendAllow]

\* The first positional argument.  Any argument other than stop and restart
\* (the script calls itself with "start") takes neither branch.
Args == {"start", "stop", "restart"}

\* ---------------------------------------------------------------- commands
\* A command line is the sequence of the fragments it is made of; a pattern
\* of alternatives matches when one fragment is one of the alternatives.
ToLower(s) ==
  CASE s = "Chrome"  -> "chrome"
    [] s = "Firefox" -> "firefox"
    [] s = "Safari"  -> "safari"
    [] s = "Google " -> "google "
    [] OTHER         -> s

\* grep -E "a|b|c"
GrepE(cmd, alts) == \E i \in 1..Len(cmd) : cmd[i] \in alts
\* grep -iE "a|b|c"
GrepIE(cmd, alts) == \E i \in 1..Len(cmd) : ToLower(cmd[i]) \in alts

\* The processes of other origin that may hold a socket on the ports:
\* a Python program of another user, a browser, and a browser installed
\* under node_modules.
Pids == {101, 103, 104}
Cmd == [p \in Pids |->
  CASE p = 101 -> <<"python", " proxy.py">>
    [] p = 103 -> <<"Google ", "Chrome", " Helper">>
    [] OTHER   -> <<"/app/", "node", "_modules/puppeteer/", "chrome">>]
\* lsof -ti:PORT lists a process for a listening socket and for a connection
PidPorts == [p \in Pids |->
  CASE p = 101 -> {BACKEND_PORT, FRONTEND_PORT}
    [] p = 103 -> {FRONTEND_PORT}
    [] OTHER   -> {BACKEND_PORT, FRONTEND_PORT}]
\* kill -9 fails (EPERM) on a process of another user; || true hides it
Unkillable == {101}

\* The process inside a session that ends up holding the port.
OwnCmd == [n \in SessionNames |->
  IF n = "webui-backend"
    THEN <<"python", " -m ", "uvicorn", " open_webui.main:app">>
    ELSE <<"node", " ", "vite", " dev">>]

NoPids == [ext |-> {}, own |-> 0]
NoRc == [top |-> -1, stop |-> -1, start |-> -1]

VARIABLES
  venv,            \* the directory $SCRIPT_DIR/venv exists
  nodeModules,     \* the directory $SCRIPT_DIR/node_modules exists
  screenInstalled, \* command -v screen succeeds
  stack,           \* running invocations, innermost last: the argument
                   \* and the position in the script of each
  BACKEND_PIDS,    \* shell variable of the innermost invocation
  FRONTEND_PIDS,   \* shell variable of the innermost invocation
  inv,             \* argument of the current (or last) top-level invocation
  rc,              \* exit statuses: of the top-level invocation, and of the
                   \* stop and start children of a restart (-1: none yet)
  sessions,        \* per session name: sessions whose server is starting,
                   \* and sessions whose server holds the port
  alive,           \* the other processes holding a socket on their ports
  signalled,       \* <<pid, port>>: kill -9 sent, this top-level invocation
  warned,          \* <<pid, port>>: "Not killing" printed
  advisory,        \* ports with "A browser is using port" printed
  launched,        \* sessions launched by this top-level invocation
  intrusions,      \* processes that appeared while this invocation ran
  wasRunning,      \* a restart was invoked while a backend and a frontend
                   \* session were running
  noPrior,         \* a start was invoked while no session was running
  logsDir,         \* the directory $SCRIPT_DIR/logs exists
  dotEnv,          \* "none": neither .env nor .env.local_example exists,
                   \* "example": only .env.local_example, "env": .env exists
  conf,            \* the port configuration: the variables .env assigns
                   \* (file), those of the operator's environment (penv),
                   \* and what dev.sh (sh) and vite.config (vite) made of them
  logs             \* per session name, its log file: "absent", "fresh"
                   \* (since its last truncation, written by the session
                   \* launched last only) or "shared" (an older session
                   \* of the name, still running, writes to it as well)

vars == <<venv, nodeModules, screenInstalled, stack, BACKEND_PIDS,
          FRONTEND_PIDS, inv, rc, sessions, alive,
          signalled, warned, advisory, launched, intrusions, wasRunning,
          noPrior, logsDir, dotEnv, logs, conf>>

env == <<venv, nodeModules, screenInstalled, conf>>
log == <<signalled, warned, advisory, launched, intrusions, wasRunning>>
fs == <<logsDir, dotEnv>>

\* ------------------------------------------------------------------ helpers
Running == stack # <<>>
Top == stack[Len(stack)]
pc == IF Running THEN Top.pc ELSE "idle"
arg == IF Running THEN Top.arg ELSE "none"

Count(n) == sessions[n].starting + sessions[n].bound

shvars == <<BACKEND_PIDS, FRONTEND_PIDS>>

NewInvocation(a) == [arg |-> a, pc |-> "prereq"]

\* lsof -ti:PORT
Lsof(port) == [ext |-> {p \in alive : port \in PidPorts[p]},
               own |-> sessions[PortSession[port]].bound]

\* ps -p PID -o command=  of a process of the snapshot: nothing when it died
Ps(p) == IF p \in alive THEN Cmd[p] ELSE <<>>

\* Faulty variant of IsServer: every living process found on the port counts.
IsServerAnyProcess(cmd, port) == cmd # <<>>

\* ps -p PID -o command= | grep -E "<the port's alternatives>"
IsServer(cmd, port) == GrepE(cmd, AllowList[port])

\* Faulty variant of StillInUse: the output of lsof is not filtered.
StillInUseAnyProcess(port) ==
  \/ Lsof(port).ext # {}
  \/ Lsof(port).own > 0

\* lsof -ti:PORT | xargs -I{} ps -p {} -o command= | grep -E "..."  is not empty
StillInUse(port) ==
  \/ \E p \in Lsof(port).ext : IsServer(Ps(p), port)
  \/ Lsof(port).own > 0 /\ IsServer(OwnCmd[PortSession[port]], port)

\* lsof -ti:PORT | xargs -I{} ps -p {} -o command= | grep -iE "..."  is not empty
BrowserOn(port) ==
  \/ \E p \in Lsof(port).ext : GrepIE(Ps(p), BrowserPattern)
  \/ Lsof(port).own > 0 /\ GrepIE(OwnCmd[PortSession[port]], BrowserPattern)

Goto(l) == stack' = [stack EXCEPT ![Len(stack)].pc = l]

\* exit STATUS of the innermost invocation; the parent, if any, goes on
Exit(status) ==
  /\ stack' = SubSeq(stack, 1, Len(stack) - 1)
  /\ BACKEND_PIDS' = NoPids
  /\ FRONTEND_PIDS' = NoPids
  /\ rc' = IF Len(stack) = 1 THEN [rc EXCEPT !.top = status]
           ELSE IF Top.arg = "stop" THEN [rc EXCEPT !.stop = status]
           ELSE [rc EXCEPT !.start = status]

\* screen -ls | grep NAME | cut -d. -f1 | xargs -I{} screen -X -S {} quit
\*   2>/dev/null || true
\* Each listed session is told to quit; a quit that fails is hidden by
\* 2>/dev/null || true and leaves its session running.  The servers of a
\* session that quits die with it.
QuitOutcomes(s) ==
  {[starting |-> a, bound |-> b] : a \in 0..s.starting, b \in 0..s.bound}

\* for PID in $PIDS; do if ps ... | grep -E ...; then kill -9 $PID || true;
\* else echo Warning; fi; done
\* Killing the server inside a session ends the session's command
\* (... | tee LOG), and with it the session.
KillLoop(port, pids) ==
  LET n == PortSession[port]
      hit == {p \in pids.ext : IsServer(Ps(p), port)}
      ownHit == IF IsServer(OwnCmd[n], port) THEN pids.own ELSE 0
  IN /\ signalled' = signalled \cup (hit \X {port})
     /\ warned' = warned \cup ((pids.ext \ hit) \X {port})
     /\ alive' = alive \ (hit \ Unkillable)
     /\ sessions' = [sessions EXCEPT ![n].bound = @ - ownHit]

\* ------------------------------------------------------ the configured ports
VarNames == {"OPEN_WEBUI_PORT", "VITE_PORT"}
Unset == "<unset>"
\* What a variable may hold: nothing, the empty string, a port, a port
\* followed by a letter.
PortValues == {Unset, "", "3000", "80a"}
NoVars == [k \in VarNames |-> Unset]

\* source "$SCRIPT_DIR/.env": an assignment of the file replaces the value the
\* shell inherited.
Source(sh, file) ==
  [k \in VarNames |-> IF file[k] # Unset THEN file[k] ELSE sh[k]]

\* Faulty variant of ShellDefault: ${VAR} without a default.
ShellNoDefault(v, d) == v

\* ${VAR:-d}: d when VAR is unset or empty
ShellDefault(v, d) == IF v \in {Unset, ""} THEN d ELSE v

\* loadEnv(mode, process.cwd(), ''): the variables of .env, each replaced by
\* the variable of that name in process.env when there is one.
loadEnv(file, penv) ==
  [k \in VarNames |-> IF penv[k] # Unset THEN penv[k] ELSE file[k]]

\* env.X || 'd': d when X is undefined or the empty string
JsOr(v, d) == IF v \in {Unset, ""} THEN d ELSE v

\* parseInt: the number its argument starts with (NaN is not needed: the
\* argument is never empty here).
parseInt(str) ==
  CASE str = "8080" -> 8080
    [] str = "5173" -> 5173
    [] str = "3000" -> 3000
    [] str = "80a" -> 80

NotRun == [backend |-> "", frontend |-> ""]
NotLoaded == [frontendPort |-> 0, backendPort |-> 0]
NoConf == [file |-> NoVars, penv |-> NoVars, sh |-> NotRun, vite |-> NotLoaded,
           at |-> "idle"]

\* Before the first invocation: a fresh checkout with nothing running, or a
\* backend and a frontend session left running by an earlier run (whose venv,
\* node_modules or screen may be gone since).
Init ==
  /\ venv \in BOOLEAN
  /\ nodeModules \in BOOLEAN
  /\ screenInstalled \in BOOLEAN
  /\ stack = <<>>
  /\ inv = "none"
  /\ rc = NoRc
  /\ \/ /\ sessions = [n \in SessionNames |-> [starting |-> 0, bound |-> 0]]
        /\ logsDir = FALSE
        /\ dotEnv = "example"
        /\ logs = [n \in SessionNames |-> "absent"]
     \/ /\ sessions = [n \in SessionNames |-> [starting |-> 0, bound |-> 1]]
        /\ logsDir = TRUE
        /\ dotEnv = "env"
        /\ logs = [n \in SessionNames |-> "fresh"]
  /\ alive = {}
  /\ BACKEND_PIDS = NoPids
  /\ FRONTEND_PIDS = NoPids
  /\ signalled = {}
  /\ warned = {}
  /\ advisory = {}
  /\ launched = 0
  /\ intrusions = 0
  /\ wasRunning = FALSE
  /\ noPrior = FALSE
  /\ conf = NoConf

\* The operator runs  dev.sh [a]  when no invocation is running.
Invoke(a) ==
  /\ ~Running
  /\ stack' = <<NewInvocation(a)>>
  /\ inv' = a
  /\ rc' = NoRc
  /\ signalled' = {}
  /\ warned' = {}
  /\ advisory' = {}
  /\ launched' = 0
  /\ intrusions' = 0
  /\ wasRunning' = (a = "restart" /\ \A n \in SessionNames : Count(n) >= 1)
  /\ noPrior' = (a = "start" /\ \A n \in SessionNames : Count(n) = 0)
  /\ UNCHANGED <<env, shvars, sessions, alive, fs, logs>>

\* Faulty variant of ExitStatus: the port conflict has a status of its own.
ExitStatusDistinct(kind) ==
  CASE kind = "prerequisite" -> 1
    [] kind = "screen" -> 1
    [] kind = "port" -> 2

\* The exit status of each fatal condition: venv or node_modules missing
\* (lines 21, 28), screen missing (line 56), a port still in use (lines 103,
\* 109).
ExitStatus(kind) ==
  CASE kind = "prerequisite" -> 1
    [] kind = "screen" -> 1
    [] kind = "port" -> 1

\* lines 31-40: cp .env.local_example .env when there is no .env
CopyEnv(f) == IF f = "example" THEN "env" ELSE f

\* Faulty variant of Prereq: the node_modules check is left out.
PrereqVenvOnly ==
  /\ pc = "prereq"
  /\ IF ~venv
       THEN Exit(ExitStatus("prerequisite"))
       ELSE Goto("screen") /\ UNCHANGED <<shvars, rc>>
  /\ logsDir' = TRUE
  /\ UNCHANGED <<env, inv, sessions, alive, log, noPrior, dotEnv, logs>>

\* lines 8-29: mkdir -p logs, then the venv and node_modules checks
Prereq ==
  /\ pc = "prereq"
  /\ IF ~venv \/ ~nodeModules
       THEN Exit(ExitStatus("prerequisite"))
       ELSE Goto("screen") /\ UNCHANGED <<shvars, rc>>
  /\ logsDir' = TRUE
  /\ UNCHANGED <<env, inv, sessions, alive, log, noPrior, dotEnv, logs>>

\* lines 31-57: the .env copy, the ports, then the check that screen is
\* installed
CheckScreen ==
  /\ pc = "screen"
  /\ IF ~screenInstalled
       THEN Exit(ExitStatus("screen"))
       ELSE Goto("reap") /\ UNCHANGED <<shvars, rc>>
  /\ dotEnv' = CopyEnv(dotEnv)
  /\ UNCHANGED <<env, inv, sessions, alive, log, noPrior, logsDir, logs>>

\* lines 59-62: quit the existing sessions of both names
Reap ==
  /\ pc = "reap"
  /\ sessions' \in [SessionNames -> UNION {QuitOutcomes(sessions[n]) : n \in SessionNames}]
  /\ \A n \in SessionNames : sessions'[n] \in QuitOutcomes(sessions[n])
  /\ Goto("snapshot")
  /\ UNCHANGED <<env, shvars, inv, rc, alive, log>>
  /\ UNCHANGED <<noPrior, fs, logs>>

\* lines 64-68: BACKEND_PIDS=$(lsof ...), FRONTEND_PIDS=$(lsof ...)
Snapshot ==
  /\ pc = "snapshot"
  /\ BACKEND_PIDS' = Lsof(BACKEND_PORT)
  /\ FRONTEND_PIDS' = Lsof(FRONTEND_PORT)
  /\ Goto("killB")
  /\ UNCHANGED <<env, inv, rc, sessions, alive, log>>
  /\ UNCHANGED <<noPrior, fs, logs>>

\* lines 70-81: the loop over BACKEND_PIDS
KillBackend ==
  /\ pc = "killB"
  /\ KillLoop(BACKEND_PORT, BACKEND_PIDS)
  /\ Goto("killF")
  /\ UNCHANGED <<env, shvars, inv, rc, advisory, launched, intrusions,
                 wasRunning>>
  /\ UNCHANGED <<noPrior, fs, logs>>

\* lines 83-94: the loop over FRONTEND_PIDS
KillFrontend ==
  /\ pc = "killF"
  /\ KillLoop(FRONTEND_PORT, FRONTEND_PIDS)
  /\ Goto("recheck")
  /\ UNCHANGED <<env, shvars, inv, rc, advisory, launched, intrusions,
                 wasRunning>>
  /\ UNCHANGED <<noPrior, fs, logs>>

\* Faulty variant of Recheck: the re-check reports and goes on.
RecheckWarnOnly ==
  /\ pc = "recheck"
  /\ Goto("advise")
  /\ UNCHANGED <<env, shvars, inv, rc, sessions, alive, log>>
  /\ UNCHANGED <<noPrior, fs, logs>>

\* lines 96-110: FRONTEND_CHECK and BACKEND_CHECK, exit 1 if either is set
Recheck ==
  /\ pc = "recheck"
  /\ IF StillInUse(FRONTEND_PORT) \/ StillInUse(BACKEND_PORT)
       THEN Exit(ExitStatus("port"))
       ELSE Goto("advise") /\ UNCHANGED <<shvars, rc>>
  /\ UNCHANGED <<env, inv, sessions, alive, log>>
  /\ UNCHANGED <<noPrior, fs, logs>>

\* lines 112-135: the browser advisories (and the Ollama advisory)
Advise ==
  /\ pc = "advise"
  /\ advisory' = advisory \cup {p \in Ports : BrowserOn(p)}
  /\ Goto("launchB")
  /\ UNCHANGED <<env, shvars, inv, rc, sessions, alive, signalled, warned,
                 launched, intrusions, wasRunning>>
  /\ UNCHANGED <<noPrior, fs, logs>>

\* screen -dmS NAME bash -c "... 2>&1 | tee LOG"
\* screen creates the session whether or not one of that name exists; the
\* model stops at MaxSessions sessions of one name.  tee (without -a)
\* truncates the log when the session's command starts; a session of the name
\* that is still running keeps its own tee on the same file.
Launch(n) ==
  /\ Count(n) < MaxSessions
  /\ sessions' = [sessions EXCEPT ![n].starting = @ + 1]
  /\ launched' = launched + 1
  /\ logs' = [logs EXCEPT ![n] = IF Count(n) >= 1 THEN "shared" ELSE "fresh"]

\* lines 137-143
LaunchBackend ==
  /\ pc = "launchB"
  /\ Launch("webui-backend")
  /\ Goto("launchF")
  /\ UNCHANGED <<env, shvars, inv, rc, alive, signalled, warned, advisory,
                 intrusions, wasRunning>>
  /\ UNCHANGED <<noPrior, fs>>

\* Faulty variant of LaunchFrontend: the frontend session is not launched.
LaunchFrontendSkipped ==
  /\ pc = "launchF"
  /\ Goto("dispatch")
  /\ UNCHANGED <<env, shvars, inv, rc, alive, signalled, warned, advisory,
                 intrusions, wasRunning, sessions, launched, logs>>
  /\ UNCHANGED <<noPrior, fs>>

\* lines 145-147
LaunchFrontend ==
  /\ pc = "launchF"
  /\ Launch("webui-frontend")
  /\ Goto("dispatch")
  /\ UNCHANGED <<env, shvars, inv, rc, alive, signalled, warned, advisory,
                 intrusions, wasRunning>>
  /\ UNCHANGED <<noPrior, fs>>

\* lines 149-161 and 200: the report, then the argument is looked at; with
\* neither stop nor restart the script ends with the status of the last if
Dispatch ==
  /\ pc = "dispatch"
  /\ IF arg = "stop"
       THEN Goto("stopReap") /\ UNCHANGED <<shvars, rc>>
     ELSE IF arg = "restart"
       THEN Goto("callStop") /\ UNCHANGED <<shvars, rc>>
     ELSE Exit(0)
  /\ UNCHANGED <<env, inv, sessions, alive, log>>
  /\ UNCHANGED <<noPrior, fs, logs>>

\* lines 162-164
StopReap ==
  /\ pc = "stopReap"
  /\ sessions' \in [SessionNames -> UNION {QuitOutcomes(sessions[n]) : n \in SessionNames}]
  /\ \A n \in SessionNames : sessions'[n] \in QuitOutcomes(sessions[n])
  /\ Goto("stopSnapshot")
  /\ UNCHANGED <<env, shvars, inv, rc, alive, log>>
  /\ UNCHANGED <<noPrior, fs, logs>>

\* lines 166-168
StopSnapshot ==
  /\ pc = "stopSnapshot"
  /\ BACKEND_PIDS' = Lsof(BACKEND_PORT)
  /\ FRONTEND_PIDS' = Lsof(FRONTEND_PORT)
  /\ Goto("stopKillB")
  /\ UNCHANGED <<env, inv, rc, sessions, alive, log>>
  /\ UNCHANGED <<noPrior, fs, logs>>

\* lines 170-180
StopKillBackend ==
  /\ pc = "stopKillB"
  /\ KillLoop(BACKEND_PORT, BACKEND_PIDS)
  /\ Goto("stopKillF")
  /\ UNCHANGED <<env, shvars, inv, rc, advisory, launched, intrusions,
                 wasRunning>>
  /\ UNCHANGED <<noPrior, fs, logs>>

\* lines 182-193
StopKillFrontend ==
  /\ pc = "stopKillF"
  /\ KillLoop(FRONTEND_PORT, FRONTEND_PIDS)
  /\ Goto("stopExit")
  /\ UNCHANGED <<env, shvars, inv, rc, advisory, launched, intrusions,
                 wasRunning>>
  /\ UNCHANGED <<noPrior, fs, logs>>

\* lines 195-196: exit 0
StopExit ==
  /\ pc = "stopExit"
  /\ Exit(0)
  /\ UNCHANGED <<env, inv, sessions, alive, log>>
  /\ UNCHANGED <<noPrior, fs, logs>>

\* line 203: bash dev.sh stop, a child process the script waits for
CallStop ==
  /\ pc = "callStop"
  /\ stack' = Append([stack EXCEPT ![Len(stack)].pc = "callStart"],
                     NewInvocation("stop"))
  /\ BACKEND_PIDS' = NoPids
  /\ FRONTEND_PIDS' = NoPids
  /\ UNCHANGED <<env, inv, rc, sessions, alive, log>>
  /\ UNCHANGED <<noPrior, fs, logs>>

\* line 205: bash dev.sh start
CallStart ==
  /\ pc = "callStart"
  /\ stack' = Append([stack EXCEPT ![Len(stack)].pc = "restartExit"],
                     NewInvocation("start"))
  /\ BACKEND_PIDS' = NoPids
  /\ FRONTEND_PIDS' = NoPids
  /\ UNCHANGED <<env, inv, rc, sessions, alive, log>>
  /\ UNCHANGED <<noPrior, fs, logs>>

\* line 206: exit 0
RestartExit ==
  /\ pc = "restartExit"
  /\ Exit(0)
  /\ UNCHANGED <<env, inv, sessions, alive, log>>
  /\ UNCHANGED <<noPrior, fs, logs>>

\* The server inside a session reaches its port (uvicorn --port, vite).
ServerBind(n) ==
  /\ sessions[n].starting > 0
  /\ sessions' = [sessions EXCEPT ![n].starting = @ - 1, ![n].bound = @ + 1]
  /\ UNCHANGED <<env, stack, shvars, inv, rc, alive, log>>
  /\ UNCHANGED <<noPrior, fs, logs>>

\* A process of other origin opens a socket on its ports.
ExtAppear(p) ==
  /\ p \notin alive
  /\ Running => intrusions < MaxIntrusions
  /\ alive' = alive \cup {p}
  /\ intrusions' = IF Running THEN intrusions + 1 ELSE intrusions
  /\ UNCHANGED <<env, stack, shvars, inv, rc, sessions, signalled, warned,
                 advisory, launched, wasRunning>>
  /\ UNCHANGED <<noPrior, fs, logs>>

Next ==
  \/ \E a \in Args : Invoke(a)
  \/ Prereq
  \/ CheckScreen
  \/ Reap
  \/ Snapshot
  \/ KillBackend
  \/ KillFrontend
  \/ Recheck
  \/ Advise
  \/ LaunchBackend
  \/ LaunchFrontend
  \/ Dispatch
  \/ StopReap
  \/ StopSnapshot
  \/ StopKillBackend
  \/ StopKillFrontend
  \/ StopExit
  \/ CallStop
  \/ CallStart
  \/ RestartExit
  \/ \E n \in SessionNames : ServerBind(n)
  \/ \E p \in Pids : ExtAppear(p)

Spec == Init /\ [][Next]_vars

\* --------------------------------------------- the ports, on their own
\* dev.sh lines 31-50 and vite.config lines 21-32 for every content of .env
\* (or of the template it is copied from) and of the environment; nothing is
\* running and the prerequisites are present.
PortInit ==
  /\ venv = TRUE /\ nodeModules = TRUE /\ screenInstalled = TRUE
  /\ stack = <<>> /\ inv = "none" /\ rc = NoRc
  /\ sessions = [n \in SessionNames |-> [starting |-> 0, bound |-> 0]]
  /\ logsDir = FALSE
  /\ logs = [n \in SessionNames |-> "absent"]
  /\ alive = {}
  /\ BACKEND_PIDS = NoPids /\ FRONTEND_PIDS = NoPids
  /\ signalled = {} /\ warned = {} /\ advisory = {}
  /\ launched = 0 /\ intrusions = 0
  /\ wasRunning = FALSE /\ noPrior = FALSE
  /\ dotEnv \in {"none", "example", "env"}
  /\ \E file \in [VarNames -> PortValues], penv \in [VarNames -> PortValues] :
        /\ dotEnv = "none" => file = NoVars
        /\ conf = [NoConf EXCEPT !.file = file, !.penv = penv, !.at = "dev.sh"]

orchestrator == <<venv, nodeModules, screenInstalled, stack, shvars, inv, rc,
                  sessions, alive, log, noPrior, logsDir, logs>>

\* dev.sh lines 31-50: the .env copy, source .env, the two defaults
LoadEnv ==
  /\ conf.at = "dev.sh"
  /\ dotEnv' = CopyEnv(dotEnv)
  /\ LET sh == IF dotEnv' = "env" THEN Source(conf.penv, conf.file)
                                  ELSE conf.penv
     IN conf' = [conf EXCEPT
                   !.sh = [backend |-> ShellDefault(sh["OPEN_WEBUI_PORT"], "8080"),
                           frontend |-> ShellDefault(sh["VITE_PORT"], "5173")],
                   !.at = "vite"]
  /\ UNCHANGED orchestrator

\* vite.config lines 21-32, run by npm run dev in the frontend session
ViteConfig ==
  /\ conf.at = "vite"
  /\ LET e == loadEnv(IF dotEnv = "env" THEN conf.file ELSE NoVars, conf.penv)
     IN conf' = [conf EXCEPT
                   !.vite = [frontendPort |-> parseInt(JsOr(e["VITE_PORT"], "5173")),
                             backendPort |-> parseInt(JsOr(e["OPEN_WEBUI_PORT"], "8080"))],
                   !.at = "done"]
  /\ UNCHANGED <<orchestrator, dotEnv>>

PortNext == LoadEnv \/ ViteConfig

PortSpec == PortInit /\ [][PortNext]_vars

TypeOK ==
  /\ Len(stack) <= 2
  /\ \A n \in SessionNames : Count(n) <= MaxSessions /\ sessions[n].bound >= 0
  /\ alive \subseteq Pids
  /\ logsDir \in BOOLEAN
  /\ dotEnv \in {"none", "example", "env"}
  /\ logs \in [SessionNames -> {"absent", "fresh", "shared"}]
  /\ conf.at \in {"idle", "dev.sh", "vite", "done"}
  /\ conf.file \in [VarNames -> PortValues] /\ conf.penv \in [VarNames -> PortValues]

\* ------------------------------------------------------------ the claims
Done(a) == ~Running /\ inv = a
PrerequisitesMet == venv /\ nodeModules /\ screenInstalled

\* Positions at which the loop over the current BACKEND_PIDS / FRONTEND_PIDS
\* of the innermost invocation has run to its end.
BackendLoopDone == pc \notin {"snapshot", "killB", "stopKillB"}
FrontendLoopDone == pc \notin {"snapshot", "killB", "killF", "stopKillB", "stopKillF"}

\* p matches the allow-list of none of the ports it holds a socket on
Foreign(p) == \A port \in PidPorts[p] : ~GrepE(Cmd[p], AllowList[port])

\* A known-server process holds a socket on the port.
KnownServerBound(port) ==
  \/ \E p \in alive : port \in PidPorts[p] /\ GrepE(Cmd[p], AllowList[port])
  \/ sessions[PortSession[port]].bound > 0

C2_NeverKillsBrowser ==
  \A sp \in signalled : ~GrepIE(Cmd[sp[1]], BrowserPattern)

\* C3: when the re-check finds a known-server process on the backend or the
\* frontend port, the invocation ends there with status 1 and launches no
\* session; a start has then launched none at all.
C3_AbortsOnOwnPortConflict ==
  [][(/\ pc = "recheck"
      /\ stack' # stack
      /\ KnownServerBound(BACKEND_PORT) \/ KnownServerBound(FRONTEND_PORT))
     => /\ stack' = SubSeq(stack, 1, Len(stack) - 1)
        /\ sessions' = sessions
        /\ launched' = launched
        /\ IF Len(stack) = 1 THEN rc'.top = 1
           ELSE IF arg = "stop" THEN rc'.stop = 1 ELSE rc'.start = 1
        /\ (Len(stack) = 1 /\ inv = "start") => launched' = 0]_vars

\* C3 witness: a start has ended with status 1 although its prerequisites
\* were met, with the unkillable Python process 101 on the backend port and
\* no session launched.
C3_Witness ==
  /\ Done("start")
  /\ PrerequisitesMet
  /\ rc.top = 1
  /\ 101 \in alive
  /\ launched = 0

\* C4: every completed stop invocation - the first of two in a row as well as
\* the second, which is again a stop invocation from some state - reports no
\* error and leaves no webui-backend and no webui-frontend session.
C4_StopIdempotent ==
  Done("stop") => rc.top = 0 /\ \A n \in SessionNames : Count(n) = 0

\* C5: a stop invocation launches no session.
C5_StopLaunchesNothing ==
  inv = "stop" => launched = 0

\* C6: a stop invocation exits with status 0.
C6_StopExitsZero ==
  Done("stop") => rc.top = 0

\* C7: in a restart no session is launched before the stop has finished, and
\* the restart launches what one start launches: at most one session of each
\* name.
C7_RestartStopsFirst ==
  inv = "restart" =>
    /\ rc.stop = -1 => launched = 0
    /\ launched <= Cardinality(SessionNames)

\* C8: a restart exits 0 only if its start step exited 0.
C8_RestartPropagatesStatus ==
  (Done("restart") /\ rc.top = 0) => rc.start = 0

\* C9: after a restart that was invoked while a backend and a frontend session
\* were running, exactly one session of each name exists.  Stated for the
\* restarts that exit 0 only, which the claim includes: a violation here is a
\* violation of the claim.
C9_RestartLeavesTwoSessions ==
  (Done("restart") /\ wasRunning /\ rc.top = 0) =>
     \A n \in SessionNames : Count(n) = 1

\* C10: at every moment at most one session of each name exists.
C10_OneSessionPerRole ==
  \A n \in SessionNames : Count(n) <= 1

\* C11: when screen is not installed, an invocation performs no mutating
\* action before it exits non-zero: no directory or file is created or copied,
\* no session ends or starts, no process is killed.
C11_NoMutationWithoutScreen ==
  [][~screenInstalled =>
       /\ logsDir' = logsDir /\ dotEnv' = dotEnv /\ logs' = logs
       /\ sessions' = sessions
       /\ alive \subseteq alive'
       /\ (Running /\ ~Running') => rc'.top # 0]_vars

\* C12: when venv or node_modules is missing, an invocation exits non-zero
\* before any session is started or ended and before any process is killed:
\* the sessions and the processes bound to the ports stay as they were.
C12_PrereqMissingTouchesNothing ==
  [][(~venv \/ ~nodeModules) =>
       /\ sessions' = sessions
       /\ alive \subseteq alive'
       /\ signalled' = {} /\ launched' = 0
       /\ (Running /\ ~Running') => rc'.top # 0]_vars

\* A start with node_modules missing has exited 1 with a session of each name
\* running and a process of other origin on the ports.
C12_Witness ==
  /\ Done("start") /\ venv /\ ~nodeModules /\ rc.top = 1
  /\ \A n \in SessionNames : sessions[n].bound = 1
  /\ 101 \in alive

\* C13: a start that meets its prerequisites and ends with no known-server
\* process bound to a port (only processes outside the allow-lists, if any)
\* is not fatal: it exits 0 and has launched both sessions, and, when no
\* process got onto a port while it ran, it has warned about every process
\* bound to a port, with the browser advisory for the port of one that is a
\* browser.
C13_ForeignOnlyIsNonFatal ==
  [][(/\ Running /\ ~Running' /\ inv = "start" /\ PrerequisitesMet
      /\ \A port \in Ports : ~KnownServerBound(port)') =>
        /\ rc'.top = 0
        /\ launched' = Cardinality(SessionNames)
        /\ \A n \in SessionNames : sessions'[n].starting + sessions'[n].bound >= 1
        /\ intrusions' = 0 =>
             \A q \in alive' : \A port \in PidPorts[q] :
                /\ <<q, port>> \in warned'
                /\ GrepIE(Cmd[q], BrowserPattern) => port \in advisory']_vars

\* A start has finished with only the foreign browser helper on the frontend
\* port.
C13_Witness ==
  /\ Done("start") /\ PrerequisitesMet
  /\ \A port \in Ports : ~KnownServerBound(port)
  /\ alive = {103} /\ intrusions = 0 /\ Foreign(103)
  /\ <<103, FRONTEND_PORT>> \in warned /\ FRONTEND_PORT \in advisory
  /\ rc.top = 0 /\ launched = 2

\* C14: every start invoked while no session was running creates exactly two
\* sessions, one webui-backend and one webui-frontend, and the two log files.
C14_StartCreatesTwoSessions ==
  (Done("start") /\ noPrior) =>
     \A n \in SessionNames : Count(n) = 1 /\ logs[n] # "absent"

\* C14, amended: a start invoked while no session was running that exits 0
\* has created exactly two sessions, one of each name, and the two log files,
\* each written by its one session; one that exits non-zero has created no
\* session.
C14_SuccessfulStartCreatesTwoSessions ==
  (Done("start") /\ noPrior) =>
     IF rc.top = 0
       THEN /\ launched = 2
            /\ \A n \in SessionNames : Count(n) = 1 /\ logs[n] = "fresh"
       ELSE /\ launched = 0
            /\ \A n \in SessionNames : Count(n) = 0

\* A start in a fresh checkout has exited 0.
C14_Witness ==
  /\ Done("start") /\ noPrior /\ rc.top = 0
  /\ \A n \in SessionNames : Count(n) = 1 /\ logs[n] = "fresh"

\* C15: the exit status of a start that finds a port still held by a
\* known-server process after the kill attempt differs from the exit status of
\* a start that finds a prerequisite directory missing.
C15_DistinctExitStatus ==
  (Done("start") /\ PrerequisitesMet /\ launched = 0) =>
     rc.top # ExitStatus("prerequisite")

\* C15, amended: a start that finds a port still held by a known-server
\* process after the kill attempt and a start that finds a prerequisite
\* directory missing exit with the same status, 1.
C15_SameExitStatus ==
  Done("start") =>
     /\ (~venv \/ ~nodeModules) => rc.top = 1
     /\ (PrerequisitesMet /\ launched = 0) => rc.top = 1

\* A start has ended at the re-check, the unkillable python process on the
\* backend port.
C15_Witness ==
  /\ Done("start") /\ PrerequisitesMet /\ launched = 0 /\ rc.top = 1
  /\ <<101, BACKEND_PORT>> \in signalled /\ 101 \in alive

\* C16: after a restart, and after a start, each log file holds only output
\* of the session launched last: no other session has written to it since
\* the launch truncated it.
C16_LogHoldsLastSessionOnly ==
  (Done("start") \/ Done("restart")) =>
     \A n \in SessionNames : logs[n] # "shared"

\* C17: with neither .env nor its template and neither OPEN_WEBUI_PORT nor
\* VITE_PORT in the environment, dev.sh uses backend port 8080 and frontend
\* port 5173, and vite.config listens on 5173 and proxies to port 8080.
C17_DefaultPortsAgree ==
  (conf.at = "done" /\ dotEnv = "none" /\ conf.penv = NoVars) =>
     /\ conf.sh = [backend |-> "8080", frontend |-> "5173"]
     /\ conf.vite = [frontendPort |-> 5173, backendPort |-> 8080]
     /\ parseInt(conf.sh.backend) = BACKEND_PORT
     /\ parseInt(conf.sh.frontend) = FRONTEND_PORT

\* Both configurations have been read with no file and no variable.
C17_Witness ==
  /\ conf.at = "done" /\ dotEnv = "none" /\ conf.penv = NoVars
  /\ conf.file = NoVars
  /\ conf.vite.frontendPort = 5173 /\ conf.sh.backend = "8080"

\* C18: when a stop has finished and every process it signalled is dead, no
\* server started by the orchestrator is bound to the backend or the frontend
\* port, and none gets bound before the next invocation, however the
\* servers' start-up inside the sessions interleaves with the script.
C18_StopLeavesNoServer ==
  (/\ Done("stop") /\ rc.top = 0
   /\ \A sp \in signalled : sp[1] \notin alive) =>
     \A n \in SessionNames : sessions[n].bound = 0

====
